---- MODULE Spec2Model ----
(***************************************************************************)
(* provider-ssh: the SSH client (internal/client/ssh.go) and the Script    *)
(* controller (internal/controller/script/script.go), first variant        *)
(* (exit-code taxonomy 0 / 1 / 100 / other, with an update script).        *)
(*                                                                         *)
(* One Script resource is reconciled by one worker.  A pass is             *)
(*   Connect -> NewSSHClient -> Observe -> (Create | Update | Delete)      *)
(* and every ExecuteScript call is the three remote steps sendFile,        *)
(* session.Run and cleanUpTempFile.  The managed reconciler that calls the *)
(* four handlers is crossplane-runtime's; it is modelled as far as the     *)
(* comments of script.go state its contract.                               *)
(***************************************************************************)
EXTENDS Integers, Sequences, FiniteSets, TLC

\* ------------------------------------------------------------------ bounds
MaxPasses == 3          \* reconciliation passes explored
MaxNames == 2           \* distinct results of randomFileName
MaxPieces == 3          \* pieces of a script text
MaxVars == 2            \* variables of a resource
MaxHostLen == 4         \* characters of a host string
MaxCalls == 2           \* ExecuteScript calls of each concurrent reconcile

\* ------------------------------------------------------- program constants
maxAttempts == 3

Names == 1..MaxNames
Bodies == {"", "sc"}                     \* a script body: empty or not
ExitCodes == {0, 1, 2, 100}              \* 2 stands for "any other value"
Outputs == {<<"o1", "e1">>, <<"o2", "e2">>}  \* what a script writes: <<stdout, stderr>>

VARIABLES
    \* the Script resource cr
    forProvider,    \* cr.Spec.ForProvider: the four script bodies
    deleted,        \* the resource carries a deletion timestamp
    finalizer,      \* the reconciler's finalizer is on the resource
    gone,           \* the resource has been removed from the API server
    ready,          \* condition of type Ready: its reason
    synced,         \* condition of type Synced: its reason
    Stdout,         \* cr.Status.AtProvider.Stdout
    Stderr,         \* cr.Status.AtProvider.Stderr
    StatusCode,     \* cr.Status.AtProvider.StatusCode
    \* the reconciliation pass
    pc,             \* where the worker is
    passes,         \* passes started
    service,        \* external.service: "nil" or "client"
    obs,            \* what Observe returned
    hret,           \* what the last of Connect/Create/Update/Delete returned
    \* NewSSHClient
    config,         \* ssh.ClientConfig.Auth built from the credentials
    attempts,       \* the loop variable
    client,         \* *ssh.Client
    err,            \* err of the last ssh.Dial: nil, or the error of the n-th call
    openConns,      \* connections established and not closed
    \* ExecuteScript
    phase,          \* which script is being executed
    xpc,            \* where ExecuteScript is
    remoteFile,     \* the staged file's name
    res,            \* what ExecuteScript returns
    handles,        \* sub-session handles this call holds open
    \* the remote host
    files,          \* staged files present under /tmp
    \* history
    dialLog,        \* the ssh.Dial calls of the NewSSHClient call in progress or just
                    \* failed, in order: TRUE for a handshake that succeeded
    sleeps,         \* its time.Sleep calls
    ran,            \* scripts ExecuteScript was called for in this pass
    remoteOps,      \* uploads and command sessions requested in this pass, per script
    run,            \* what really happened in the current ExecuteScript call
    lastCheck,      \* what really happened in the last status-check run
    prev,           \* the pass before this one saw exit status 100 and its Create succeeded
    cleanupRuns,    \* ExecuteScript calls for the cleanup script
    \* ReplaceVariables
    rvScript,       \* its argument script
    rvVars,         \* its argument vars
    rvOut,          \* what it returned
    rvDone,         \* it has returned
    \* NewSSHClient called on its own
    kcIn,           \* the decoded credentials
    kcOut,          \* the error it returns before the retry loop, or "nil"
    kcAuth,         \* config.Auth when it reaches the loop
    kcDone,         \* the validation has run
    \* concurrent executions on one host
    ex,             \* per execution: where it is, its file name, what it ran
    hostFiles,      \* per file name of /tmp: whose script it holds, 0 when absent
    usedNames,      \* names randomFileName has returned
    \* scheduling
    stable          \* from now on the host is reachable and the status check exits 0

resVars == <<forProvider, deleted, finalizer, gone, ready, synced, Stdout, Stderr, StatusCode>>
passVars == <<pc, passes, service, obs, hret>>
connVars == <<config, attempts, client, err, openConns>>
execVars == <<phase, xpc, remoteFile, res, handles>>
hostVars == <<files>>
histVars == <<dialLog, sleeps, ran, remoteOps, run, lastCheck, prev, cleanupRuns>>
substVars == <<rvScript, rvVars, rvOut, rvDone>>
credVars == <<kcIn, kcOut, kcAuth, kcDone>>
parVars == <<ex, hostFiles, usedNames>>
otherVars == <<credVars, parVars, stable>>
vars == <<resVars, passVars, connVars, execVars, hostVars, histVars, substVars, otherVars>>

\* ------------------------------------------------------------ credentials
\* A host is a sequence of characters.
Digit == {"0", "1", "2", "3", "4", "5", "6", "7", "8", "9"}
IPv4Host == <<"1", ".", "2", ".", "3", ".", "4">>
DNSHost == <<"h", ".", "c">>
OneLabelHost == <<"h">>

\* The labels of s between its dots: Split(<<"a",".","b">>) = << <<"a">>, <<"b">> >>.
RECURSIVE Split(_)
Split(s) ==
    IF s = <<>> THEN << <<>> >>
    ELSE LET rest == Split(Tail(s))
         IN  IF Head(s) = "." THEN << <<>> >> \o rest
             ELSE << <<Head(s)>> \o Head(rest) >> \o Tail(rest)

\* ^(\d{1,3}\.){3}\d{1,3}$
ipv4Regex(s) ==
    LET ls == Split(s)
    IN  /\ Len(ls) = 4
        /\ \A i \in 1..4 : /\ Len(ls[i]) \in 1..3
                           /\ \A j \in 1..Len(ls[i]) : ls[i][j] \in Digit

\* Mutant: ^[^\.]+(\.[^\.]+)*$, which a single label matches.
urlRegexOneLabel(s) ==
    LET ls == Split(s)
    IN  /\ Len(ls) >= 1
        /\ \A i \in 1..Len(ls) : Len(ls[i]) >= 1
\* ^[^\.]+(\.[^\.]+)+$
urlRegex(s) ==
    LET ls == Split(s)
    IN  /\ Len(ls) >= 2
        /\ \A i \in 1..Len(ls) : Len(ls[i]) >= 1

isValidIPv4(inputAddress) == ipv4Regex(inputAddress) \/ urlRegex(inputAddress)

\* The decoded Secret: Config, and whether json.Unmarshal accepts the payload.
\* PrivateKey: "" | "key" (base64 of a private key) | "notbase64" | "notakey".
\* KnownHosts: "" | "kh" (knownhosts.New accepts it) | "badkh".
PasswordKc ==
    [parse |-> TRUE, Username |-> "u", RemoteHostIP |-> IPv4Host, RemoteHostPort |-> "22",
     Password |-> "pw", PrivateKey |-> "", KnownHosts |-> ""]
CredSet ==
    { PasswordKc,
      [PasswordKc EXCEPT !.Password = "", !.PrivateKey = "key"],
      [PasswordKc EXCEPT !.PrivateKey = "key", !.KnownHosts = "kh"],
      [PasswordKc EXCEPT !.PrivateKey = "notbase64"],
      [PasswordKc EXCEPT !.Password = "", !.PrivateKey = "notakey"],
      [PasswordKc EXCEPT !.Password = ""],
      [PasswordKc EXCEPT !.Username = ""],
      [PasswordKc EXCEPT !.RemoteHostIP = <<>>],
      [PasswordKc EXCEPT !.RemoteHostIP = OneLabelHost],
      [PasswordKc EXCEPT !.RemoteHostIP = DNSHost, !.RemoteHostPort = ""],
      [PasswordKc EXCEPT !.KnownHosts = "badkh"],
      [PasswordKc EXCEPT !.parse = FALSE] }

\* Mutant: the switch has no default case.
ValidateNoDefault(kc) ==
    IF ~kc.parse THEN "Cannot parse credentials"
    ELSE IF kc.Username = "" THEN "Username key not found in the data"
    ELSE IF kc.RemoteHostIP = <<>> THEN "Remote host key not found in the data"
    ELSE IF ~isValidIPv4(kc.RemoteHostIP) THEN "Remote host address is not a valid"
    ELSE IF kc.KnownHosts = "badkh" THEN "Failed to create known hosts callback"
    ELSE "nil"
\* NewSSHClient up to the retry loop: the error it returns, or "nil".
ValidateConfig(kc) ==
    IF ~kc.parse THEN "Cannot parse credentials"
    ELSE IF kc.Username = "" THEN "Username key not found in the data"
    ELSE IF kc.RemoteHostIP = <<>> THEN "Remote host key not found in the data"
    ELSE IF ~isValidIPv4(kc.RemoteHostIP) THEN "Remote host address is not a valid"
    ELSE IF kc.KnownHosts = "badkh" THEN "Failed to create known hosts callback"
    ELSE IF kc.PrivateKey /= "" THEN "nil"
    ELSE IF kc.Password /= "" THEN "nil"
    ELSE "Private Key or Password key not found in the data."

\* config.Auth: a decoding or parsing error of the key is only logged, and the
\* public-key method is built from the nil signer.
AuthOf(kc) ==
    IF kc.PrivateKey /= ""
    THEN [method |-> "PublicKeys", signer |-> IF kc.PrivateKey = "key" THEN "signer" ELSE "nil"]
    ELSE [method |-> "Password", signer |-> "none"]
NoAuth == [method |-> "none", signer |-> "none"]
NilErr == [nil |-> TRUE, attempt |-> 0]

\* ------------------------------------------------------------ initial state
NoObs == [exists |-> FALSE, upToDate |-> FALSE, err |-> FALSE]
NoRet == [fn |-> "none", err |-> FALSE]
NoRes == [stdout |-> "", stderr |-> "", err |-> "nil", code |-> 0]
NoRun == [kind |-> "none", code |-> 0, out |-> "", err |-> "", rm |-> "none", sent |-> "none"]
Phases == {"statusCheck", "init", "update", "cleanup"}
NoOps == [p \in Phases |-> 0]
NoCheck == [kind |-> "none", code |-> 0, out |-> "", err |-> ""]

\* The variables of a part of the program that is not running.
IdleCred == kcIn = PasswordKc /\ kcOut = "nil" /\ kcAuth = NoAuth /\ kcDone = FALSE
IdlePar == ex = <<>> /\ hostFiles = <<>> /\ usedNames = {}
IdleSubst == rvScript = <<>> /\ rvVars = <<>> /\ rvOut = <<>> /\ rvDone = FALSE
IdleOther == IdleCred /\ IdlePar /\ stable = FALSE

Init ==
    /\ forProvider \in [InitScript : Bodies, StatusCheckScript : Bodies,
                        UpdateScript : Bodies, CleanupScript : Bodies]
    /\ deleted = FALSE /\ finalizer = FALSE /\ gone = FALSE
    /\ ready = "none" /\ synced = "none"
    /\ Stdout = "" /\ Stderr = "" /\ StatusCode = 0
    /\ pc = "idle" /\ passes = 0 /\ service = "nil" /\ obs = NoObs /\ hret = NoRet
    /\ config = NoAuth /\ attempts = 0 /\ client = "nil" /\ err = NilErr /\ openConns = 0
    /\ phase = "none" /\ xpc = "none" /\ remoteFile = 0 /\ res = NoRes /\ handles = {}
    /\ files = {}
    /\ dialLog = <<>> /\ sleeps = 0 /\ ran = <<>> /\ remoteOps = NoOps /\ run = NoRun
    /\ lastCheck = NoCheck /\ prev = FALSE /\ cleanupRuns = 0
    /\ rvScript = <<>> /\ rvVars = <<>> /\ rvOut = <<>> /\ rvDone = FALSE
    /\ IdleOther

Range(s) == {s[i] : i \in 1..Len(s)}

\* The status check of the current pass has returned to Observe.
CheckedThisPass ==
    /\ ran /= <<>> /\ ran[1] = "statusCheck"
    /\ ~(pc = "exec" /\ phase = "statusCheck")

\* The pass that just ended saw exit status 100 and its Create returned no error.
PassSummary ==
    /\ CheckedThisPass /\ lastCheck.kind = "exit" /\ lastCheck.code = 100
    /\ hret = [fn |-> "Create", err |-> FALSE]

\* ---------------------------------------------------------------- Connect
\* connector.Connect: a resource carrying the Deleting condition gets a client
\* without a connection; otherwise the credentials are read and NewSSHClient
\* validates them before its retry loop.
\* Mutant: Connect does not look at the Deleting condition.
condNeverDeleting == FALSE
\* cond := cr.GetCondition(xpv1.Deleting().Type); cond.Type == TypeReady &&
\* cond.Status == "False" && cond.Reason == ReasonDeleting
condIsDeleting == ready = "Deleting"

Connect ==
    /\ pc = "idle" /\ ~gone /\ passes < MaxPasses
    /\ passes' = passes + 1
    /\ prev' = PassSummary
    /\ dialLog' = <<>> /\ sleeps' = 0 /\ ran' = <<>> /\ remoteOps' = NoOps /\ run' = NoRun
    /\ obs' = NoObs /\ client' = "nil" /\ err' = NilErr /\ service' = "nil"
    /\ phase' = "none" /\ xpc' = "none" /\ remoteFile' = 0 /\ res' = NoRes /\ handles' = {}
    /\ IF condIsDeleting
       THEN /\ hret' = [fn |-> "Connect", err |-> FALSE]
            /\ pc' = "observe" /\ config' = NoAuth /\ attempts' = 0
            /\ UNCHANGED synced
       ELSE \E kc \in CredSet :
              IF ValidateConfig(kc) /= "nil"
              THEN /\ hret' = [fn |-> "Connect", err |-> TRUE]
                   /\ synced' = "ReconcileError"
                   /\ pc' = "idle" /\ config' = NoAuth /\ attempts' = 0
              ELSE /\ config' = AuthOf(kc) /\ attempts' = 1 /\ pc' = "dial"
                   /\ hret' = NoRet
                   /\ UNCHANGED synced
    /\ UNCHANGED <<forProvider, deleted, finalizer, gone, ready, Stdout, Stderr, StatusCode>>
    /\ UNCHANGED <<openConns, files, lastCheck, cleanupRuns>>
    /\ UNCHANGED <<substVars, otherVars>>

\* ------------------------------------------------------------ NewSSHClient
\* for attempts := 1; attempts <= maxAttempts; attempts++
LoopCond(a) == a <= maxAttempts
\* Mutant: the loop does not stop at a successful handshake.
NeverBreak(e) == FALSE
\* if err == nil { break }
BreakOnSuccess(e) == e.nil
\* Mutant: the delay is taken after the last attempt too.
SleepAfterLast(a) == a <= maxAttempts
\* if attempts < maxAttempts { time.Sleep(delayBetweenRetries) }
ShouldSleep(a) == a < maxAttempts

\* What the n-th ssh.Dial can return.  With a nil signer the handshake cannot complete.
DialOutcomes(cfg, n) ==
    {[client |-> "nil", err |-> [nil |-> FALSE, attempt |-> n]]}
    \cup (IF cfg.signer = "nil" THEN {} ELSE {[client |-> "client", err |-> NilErr]})

\* One iteration of the retry loop.
Dial ==
    /\ pc = "dial"
    /\ \E r \in DialOutcomes(config, Len(dialLog) + 1) :
         /\ dialLog' = Append(dialLog, r.err.nil)
         /\ client' = r.client /\ err' = r.err
         /\ openConns' = openConns + (IF r.client = "nil" THEN 0 ELSE 1)
         /\ IF BreakOnSuccess(r.err)
            THEN pc' = "dialed" /\ UNCHANGED attempts
            ELSE IF ShouldSleep(attempts)
                 THEN pc' = "sleep" /\ UNCHANGED attempts
                 ELSE /\ attempts' = attempts + 1
                      /\ pc' = IF LoopCond(attempts + 1) THEN "dial" ELSE "dialed"
    /\ UNCHANGED <<resVars, passes, service, obs, hret, config, execVars, hostVars>>
    /\ UNCHANGED <<sleeps, ran, remoteOps, run, lastCheck, prev, cleanupRuns>>
    /\ UNCHANGED <<substVars, otherVars>>

\* The handshake reaches authentication with the nil signer: the public-key
\* method dereferences it and the pass is aborted.
DialPanic ==
    /\ pc = "dial" /\ config.signer = "nil"
    /\ dialLog' = Append(dialLog, FALSE)
    /\ pc' = "panic"
    /\ UNCHANGED <<resVars, passes, service, obs, hret, connVars, execVars, hostVars>>
    /\ UNCHANGED <<sleeps, ran, remoteOps, run, lastCheck, prev, cleanupRuns>>
    /\ UNCHANGED <<substVars, otherVars>>

\* time.Sleep(delayBetweenRetries), then attempts++ and the loop condition.
Sleep ==
    /\ pc = "sleep"
    /\ sleeps' = sleeps + 1
    /\ attempts' = attempts + 1
    /\ pc' = IF LoopCond(attempts + 1) THEN "dial" ELSE "dialed"
    /\ UNCHANGED <<resVars, passes, service, obs, hret, config, client, err, openConns>>
    /\ UNCHANGED <<execVars, hostVars, dialLog, ran, remoteOps, run, lastCheck, prev, cleanupRuns>>
    /\ UNCHANGED <<substVars, otherVars>>

\* After the loop: if err != nil { return nil, err }; return client, nil
NewSSHClientReturn(c, e) ==
    IF ~e.nil THEN [client |-> "nil", err |-> e] ELSE [client |-> c, err |-> NilErr]

\* NewSSHClient returns; Connect wraps an error, and the reconciler records it and
\* requeues.
ConnectReturn ==
    /\ pc = "dialed"
    /\ service' = NewSSHClientReturn(client, err).client
    /\ IF ~NewSSHClientReturn(client, err).err.nil
       THEN /\ hret' = [fn |-> "Connect", err |-> TRUE]
            /\ synced' = "ReconcileError"
            /\ pc' = "idle"
            /\ UNCHANGED <<config, attempts, dialLog, sleeps>>
       ELSE /\ hret' = [fn |-> "Connect", err |-> FALSE]
            /\ pc' = "observe"
            /\ config' = NoAuth /\ attempts' = 0 /\ dialLog' = <<>> /\ sleeps' = 0
            /\ UNCHANGED synced
    /\ UNCHANGED <<forProvider, deleted, finalizer, gone, ready, Stdout, Stderr, StatusCode>>
    /\ UNCHANGED <<passes, obs, client, err, openConns, execVars, hostVars>>
    /\ UNCHANGED <<ran, remoteOps, run, lastCheck, prev, cleanupRuns>>
    /\ UNCHANGED <<substVars, otherVars>>

\* The worker recovers from the panic; nothing of the pass is recorded.
Recover ==
    /\ pc = "panic"
    /\ pc' = "idle"
    /\ UNCHANGED <<resVars, passes, service, obs, hret, connVars, execVars, hostVars, histVars>>
    /\ UNCHANGED <<substVars, otherVars>>

\* ----------------------------------------------------------- ExecuteScript
\* Where sendFile can fail, and "ok".
SendOutcomes == {"sessionFail", "sftpFail", "createFail", "writeFail", "ok"}

\* The handles sendFile has opened when it leaves at f: client.NewSession,
\* sftp.NewClient, sftpClient.Create.
sendFileOpened(f) ==
    CASE f = "sessionFail" -> {}
      [] f = "sftpFail" -> {"session"}
      [] f = "createFail" -> {"session", "sftpClient"}
      [] OTHER -> {"session", "sftpClient", "remoteFile"}

\* The handles its deferred calls close: closeSession(session), session.Close()
\* in the second defer, remoteFile.Close().
sendFileDeferred(f) ==
    CASE f = "sessionFail" -> {}
      [] f = "sftpFail" -> {"session"}
      [] f = "createFail" -> {"session"}
      [] OTHER -> {"session", "remoteFile"}

\* sftpClient.Create makes (or truncates) the remote file.
sendFileCreates(f) == f \in {"writeFail", "ok"}

\* return "", stderrBuf.String(), err
RunError(o) ==
    [stdout |-> "", stderr |-> o.w[2],
     err |-> IF o.kind = "exit" THEN "ExitError" ELSE "other", code |-> o.code]

\* How session.Run(cmd) can end: the process terminates with an exit status, or
\* the connection drops and there is none.
RunOutcomes ==
    [kind : {"exit"}, code : ExitCodes, w : Outputs]
    \cup [kind : {"dropped"}, code : {0}, w : Outputs]

\* ExecuteScript has returned to its caller: its locals are gone.
ExecDone ==
    /\ phase' = "none" /\ xpc' = "none" /\ remoteFile' = 0
    /\ res' = NoRes /\ handles' = {} /\ run' = NoRun

\* ExecuteScript up to sendFile: variables substituted, file name drawn.
ExecStart(p) ==
    /\ phase' = p /\ xpc' = "send"
    /\ \E n \in Names : remoteFile' = n
    /\ res' = NoRes /\ handles' = {} /\ run' = NoRun
    /\ ran' = Append(ran, p)

\* A handler's call ExecuteScript(ctx, c.service.(*ssh.Client), ...): the type
\* assertion panics on a client without a connection.
CallExecuteScript(p) ==
    IF service = "nil"
    THEN pc' = "panic" /\ UNCHANGED <<phase, xpc, remoteFile, res, handles, run, ran>>
    ELSE pc' = "exec" /\ ExecStart(p)

\* Mutant: the error of sendFile is ignored and the script is run.
SendNeverFails(f) == FALSE
\* if err := sendFile(client, sc, remoteFile); err != nil
SendFailed(f) == f /= "ok"

\* sendFile(client, sc, remoteFile), and ExecuteScript's return when it fails.
SendFile ==
    /\ pc = "exec" /\ xpc = "send"
    /\ remoteOps' = [remoteOps EXCEPT ![phase] = @ + 1]
    /\ \E f \in SendOutcomes :
         /\ handles' = (handles \cup sendFileOpened(f)) \ sendFileDeferred(f)
         /\ files' = IF sendFileCreates(f) THEN files \cup {remoteFile} ELSE files
         /\ run' = [run EXCEPT !.sent = f, !.kind = IF SendFailed(f) THEN "notrun" ELSE @]
         /\ IF ~SendFailed(f)
            THEN xpc' = "run" /\ UNCHANGED res
            ELSE /\ xpc' = "ret"
                 /\ res' = [stdout |-> "", stderr |-> "", err |-> "other", code |-> 0]
    /\ UNCHANGED <<resVars, passVars, connVars, phase, remoteFile>>
    /\ UNCHANGED <<dialLog, sleeps, ran, lastCheck, prev, cleanupRuns>>
    /\ UNCHANGED <<substVars, otherVars>>

\* client.NewSession and session.Run(cmd); a nonzero exit or a failure returns at
\* once, and the deferred closeSession closes the session.
RunScript ==
    /\ pc = "exec" /\ xpc = "run"
    /\ remoteOps' = [remoteOps EXCEPT ![phase] = @ + 1]
    /\ \/ /\ res' = [stdout |-> "", stderr |-> "", err |-> "other", code |-> 0]
          /\ run' = [run EXCEPT !.kind = "notrun"]
          /\ xpc' = "ret"
          /\ UNCHANGED handles
       \/ \E o \in RunOutcomes :
            /\ run' = [kind |-> o.kind, code |-> o.code, out |-> o.w[1], err |-> o.w[2],
                       rm |-> "none", sent |-> run.sent]
            /\ IF o.kind = "exit" /\ o.code = 0
               THEN /\ xpc' = "clean"
                    /\ handles' = handles \cup {"runSession"}
                    /\ UNCHANGED res
               ELSE /\ xpc' = "ret"
                    /\ handles' = (handles \cup {"runSession"}) \ {"runSession"}
                    /\ res' = RunError(o)
    /\ UNCHANGED <<resVars, passVars, connVars, phase, remoteFile, hostVars>>
    /\ UNCHANGED <<dialLog, sleeps, ran, lastCheck, prev, cleanupRuns>>
    /\ UNCHANGED <<substVars, otherVars>>

\* cleanUpTempFile(client, remoteFile), whose error is only logged, and the
\* return of the captured output.
CleanUpOutcomes == {"sessionFail", "rmFail", "ok"}
\* Mutant: the error of cleanUpTempFile is returned as the call's error.
CleanUpPropagated(c) ==
    IF c = "ok" THEN [stdout |-> run.out, stderr |-> run.err, err |-> "nil", code |-> 0]
    ELSE [stdout |-> "", stderr |-> "", err |-> "other", code |-> 0]
\* The error c of cleanUpTempFile is logged; return stdoutBuf.String(),
\* stderrBuf.String(), nil
ScriptExecuted(c) == [stdout |-> run.out, stderr |-> run.err, err |-> "nil", code |-> 0]
cleanUpTempFile ==
    /\ pc = "exec" /\ xpc = "clean"
    /\ remoteOps' = [remoteOps EXCEPT ![phase] = @ + 1]
    /\ \E c \in CleanUpOutcomes :
         /\ files' = IF c = "ok" THEN files \ {remoteFile} ELSE files
         /\ run' = [run EXCEPT !.rm = c]
         /\ res' = ScriptExecuted(c)
    /\ handles' = handles \ {"runSession"}
    /\ xpc' = "ret"
    /\ UNCHANGED <<resVars, passVars, connVars, phase, remoteFile>>
    /\ UNCHANGED <<dialLog, sleeps, ran, lastCheck, prev, cleanupRuns>>
    /\ UNCHANGED <<substVars, otherVars>>

\* ----------------------------------------------------------------- Observe
Exists == [exists |-> TRUE, upToDate |-> TRUE, err |-> FALSE]
NotExists == [exists |-> FALSE, upToDate |-> FALSE, err |-> FALSE]

\* Mutant: the exit status is read without the else branch that sets 1.
ExitStatusNoDefault(r) == r.code
\* exitErr.ExitStatus() of an *ssh.ExitError, else 1.
ExitStatus(r) == IF r.err = "ExitError" THEN r.code ELSE 1

\* Mutant: exit status 1 is not an error (the resource exists, not up to date).
ClassifyNoFatal(exitStatus) ==
    IF exitStatus = 100 THEN NotExists
    ELSE [exists |-> TRUE, upToDate |-> FALSE, err |-> FALSE]
\* Mutant: exit status 100 is handled like any other nonzero status.
ClassifyNoAbsent(exitStatus) ==
    IF exitStatus = 1 THEN [exists |-> FALSE, upToDate |-> FALSE, err |-> TRUE]
    ELSE [exists |-> TRUE, upToDate |-> FALSE, err |-> FALSE]
\* The observation returned for a failed status check.
Classify(exitStatus) ==
    IF exitStatus = 1 THEN [exists |-> FALSE, upToDate |-> FALSE, err |-> TRUE]
    ELSE IF exitStatus = 100 THEN NotExists
    ELSE [exists |-> TRUE, upToDate |-> FALSE, err |-> FALSE]

\* Mutant: Observe does not look at the Deleting condition.
cdNeverDeleting == FALSE
\* cd := cr.GetCondition(xpv1.Deleting().Type); cd.Type == TypeReady &&
\* cd.Status == "False" && cd.Reason == ReasonDeleting
cdIsDeleting == ready = "Deleting"

\* Observe up to its ExecuteScript call, and its two returns that run nothing.
Observe ==
    /\ pc = "observe"
    /\ IF cdIsDeleting
       THEN /\ obs' = NotExists /\ pc' = "observed"
            /\ UNCHANGED <<phase, xpc, remoteFile, res, handles, run, ran>>
       ELSE IF forProvider.StatusCheckScript /= ""
       THEN CallExecuteScript("statusCheck") /\ UNCHANGED obs
       ELSE /\ obs' = Exists /\ pc' = "observed"
            /\ UNCHANGED <<phase, xpc, remoteFile, res, handles, run, ran>>
    /\ UNCHANGED <<resVars, passes, service, hret, connVars, hostVars>>
    /\ UNCHANGED <<dialLog, sleeps, remoteOps, lastCheck, prev, cleanupRuns>>
    /\ UNCHANGED <<substVars, otherVars>>

\* Observe after ExecuteScript returned.
ObserveResult ==
    /\ pc = "exec" /\ xpc = "ret" /\ phase = "statusCheck"
    /\ Stdout' = res.stdout /\ Stderr' = res.stderr
    /\ IF res.err /= "nil"
       THEN /\ StatusCode' = ExitStatus(res)
            /\ obs' = Classify(ExitStatus(res))
            /\ synced' = IF ExitStatus(res) = 1 THEN "ReconcileError" ELSE synced
            /\ UNCHANGED ready
       ELSE /\ ready' = "Available"
            /\ obs' = Exists
            /\ UNCHANGED <<StatusCode, synced>>
    /\ lastCheck' = [kind |-> run.kind, code |-> run.code, out |-> run.out, err |-> run.err]
    /\ pc' = "observed" /\ ExecDone
    /\ UNCHANGED <<forProvider, deleted, finalizer, gone, passes, service, hret>>
    /\ UNCHANGED <<connVars, hostVars>>
    /\ UNCHANGED <<dialLog, sleeps, ran, remoteOps, prev, cleanupRuns>>
    /\ UNCHANGED <<substVars, otherVars>>

\* --------------------------------------------------------- the reconciler
\* What the managed reconciler does with the observation: an error ends the pass
\* (neither Create nor Update is called); a deleted resource is handed to Delete
\* while it exists and is released when it does not; otherwise ResourceExists =
\* false calls Create and ResourceUpToDate = false calls Update.
Dispatch ==
    /\ pc = "observed"
    /\ IF obs.err
       THEN /\ synced' = "ReconcileError" /\ pc' = "idle"
            /\ UNCHANGED <<finalizer, gone>>
       ELSE IF deleted
       THEN IF obs.exists
            THEN pc' = "delete" /\ UNCHANGED <<synced, finalizer, gone>>
            ELSE /\ gone' = TRUE /\ finalizer' = FALSE /\ pc' = "idle"
                 /\ UNCHANGED synced
       ELSE /\ finalizer' = TRUE /\ UNCHANGED gone
            /\ IF ~obs.exists THEN pc' = "create" /\ UNCHANGED synced
               ELSE IF obs.upToDate THEN pc' = "idle" /\ synced' = "ReconcileSuccess"
               ELSE pc' = "update" /\ UNCHANGED synced
    /\ UNCHANGED <<forProvider, deleted, ready, Stdout, Stderr, StatusCode>>
    /\ UNCHANGED <<passes, service, obs, hret, connVars, execVars, hostVars, histVars>>
    /\ UNCHANGED <<substVars, otherVars>>

\* Mutant: an error of Create is not recorded.
AfterCreateSwallowed(e) ==
    /\ hret' = [fn |-> "Create", err |-> FALSE]
    /\ ready' = "Creating"
    /\ synced' = "ReconcileSuccess"
    /\ pc' = "idle"
\* Mutant: a successful Update marks the resource Available at once.
AfterUpdateOptimistic(e) ==
    /\ hret' = [fn |-> "Update", err |-> e]
    /\ synced' = IF e THEN "ReconcileError" ELSE "ReconcileSuccess"
    /\ ready' = IF e THEN ready ELSE "Available"
    /\ pc' = "idle"
\* The reconciler after Create, Update and Delete returned e.
AfterCreate(e) ==
    /\ hret' = [fn |-> "Create", err |-> e]
    /\ ready' = "Creating"
    /\ synced' = IF e THEN "ReconcileError" ELSE "ReconcileSuccess"
    /\ pc' = "idle"
AfterUpdate(e) ==
    /\ hret' = [fn |-> "Update", err |-> e]
    /\ synced' = IF e THEN "ReconcileError" ELSE "ReconcileSuccess"
    /\ pc' = "idle"
    /\ UNCHANGED ready
AfterDelete(e) ==
    /\ hret' = [fn |-> "Delete", err |-> e]
    /\ ready' = "Deleting"
    /\ synced' = IF e THEN "ReconcileError" ELSE "ReconcileSuccess"
    /\ pc' = "idle"

\* The user deletes the resource: with the finalizer on it, it stays until the
\* reconciler releases it.
RequestDelete ==
    /\ pc = "idle" /\ ~deleted /\ ~gone
    /\ IF finalizer THEN deleted' = TRUE /\ UNCHANGED gone
       ELSE gone' = TRUE /\ UNCHANGED deleted
    /\ UNCHANGED <<forProvider, finalizer, ready, synced, Stdout, Stderr, StatusCode>>
    /\ UNCHANGED <<passVars, connVars, execVars, hostVars, histVars>>
    /\ UNCHANGED <<substVars, otherVars>>

\* ------------------------------------------------- Create, Update, Delete
Create ==
    /\ pc = "create"
    /\ IF forProvider.InitScript /= ""
       THEN CallExecuteScript("init") /\ UNCHANGED <<hret, ready, synced>>
       ELSE AfterCreate(FALSE) /\ UNCHANGED <<phase, xpc, remoteFile, res, handles, run, ran>>
    /\ UNCHANGED <<forProvider, deleted, finalizer, gone, Stdout, Stderr, StatusCode>>
    /\ UNCHANGED <<passes, service, obs, connVars, hostVars>>
    /\ UNCHANGED <<dialLog, sleeps, remoteOps, lastCheck, prev, cleanupRuns>>
    /\ UNCHANGED <<substVars, otherVars>>

CreateResult ==
    /\ pc = "exec" /\ xpc = "ret" /\ phase = "init"
    /\ AfterCreate(res.err /= "nil")
    /\ ExecDone
    /\ UNCHANGED <<forProvider, deleted, finalizer, gone, Stdout, Stderr, StatusCode>>
    /\ UNCHANGED <<passes, service, obs, connVars, hostVars>>
    /\ UNCHANGED <<dialLog, sleeps, ran, remoteOps, lastCheck, prev, cleanupRuns>>
    /\ UNCHANGED <<substVars, otherVars>>

Update ==
    /\ pc = "update"
    /\ IF forProvider.UpdateScript /= ""
       THEN CallExecuteScript("update") /\ UNCHANGED <<hret, ready, synced>>
       ELSE AfterUpdate(FALSE) /\ UNCHANGED <<phase, xpc, remoteFile, res, handles, run, ran>>
    /\ UNCHANGED <<forProvider, deleted, finalizer, gone, Stdout, Stderr, StatusCode>>
    /\ UNCHANGED <<passes, service, obs, connVars, hostVars>>
    /\ UNCHANGED <<dialLog, sleeps, remoteOps, lastCheck, prev, cleanupRuns>>
    /\ UNCHANGED <<substVars, otherVars>>

UpdateResult ==
    /\ pc = "exec" /\ xpc = "ret" /\ phase = "update"
    /\ AfterUpdate(res.err /= "nil")
    /\ ExecDone
    /\ UNCHANGED <<forProvider, deleted, finalizer, gone, Stdout, Stderr, StatusCode>>
    /\ UNCHANGED <<passes, service, obs, connVars, hostVars>>
    /\ UNCHANGED <<dialLog, sleeps, ran, remoteOps, lastCheck, prev, cleanupRuns>>
    /\ UNCHANGED <<substVars, otherVars>>

\* Mutant: Delete runs the cleanup script without looking at its body.
CleanupUnchecked == TRUE
\* if cr.Spec.ForProvider.CleanupScript != ""
HasCleanup == forProvider.CleanupScript /= ""

Delete ==
    /\ pc = "delete"
    /\ IF HasCleanup
       THEN /\ CallExecuteScript("cleanup")
            /\ cleanupRuns' = IF service = "nil" THEN cleanupRuns ELSE cleanupRuns + 1
            /\ UNCHANGED <<hret, ready, synced>>
       ELSE /\ AfterDelete(FALSE)
            /\ UNCHANGED <<phase, xpc, remoteFile, res, handles, run, ran, cleanupRuns>>
    /\ UNCHANGED <<forProvider, deleted, finalizer, gone, Stdout, Stderr, StatusCode>>
    /\ UNCHANGED <<passes, service, obs, connVars, hostVars>>
    /\ UNCHANGED <<dialLog, sleeps, remoteOps, lastCheck, prev>>
    /\ UNCHANGED <<substVars, otherVars>>

DeleteResult ==
    /\ pc = "exec" /\ xpc = "ret" /\ phase = "cleanup"
    /\ AfterDelete(res.err /= "nil")
    /\ ExecDone
    /\ UNCHANGED <<forProvider, deleted, finalizer, gone, Stdout, Stderr, StatusCode>>
    /\ UNCHANGED <<passes, service, obs, connVars, hostVars>>
    /\ UNCHANGED <<dialLog, sleeps, ran, remoteOps, lastCheck, prev, cleanupRuns>>
    /\ UNCHANGED <<substVars, otherVars>>

\* ------------------------------------------------------------ specification
Next ==
    \/ RequestDelete
    \/ Connect
    \/ Dial
    \/ DialPanic
    \/ Sleep
    \/ ConnectReturn
    \/ Recover
    \/ Observe
    \/ SendFile
    \/ RunScript
    \/ cleanUpTempFile
    \/ ObserveResult
    \/ Dispatch
    \/ Create
    \/ CreateResult
    \/ Update
    \/ UpdateResult
    \/ Delete
    \/ DeleteResult

Spec == Init /\ [][Next]_vars

\* -------------------------------------------------------- ReplaceVariables
\* A string is a sequence of characters.  A v1alpha1.Variable is [Name, Value].
Placeholder(name) == <<"{", "{">> \o name \o <<"}", "}">>
VarNames == {<<"a">>, <<"b">>}
Values == {<<>>, <<"x">>, Placeholder(<<"a">>), Placeholder(<<"b">>)}
Variable == [Name : VarNames, Value : Values]
VarLists == UNION {[1..n -> Variable] : n \in 0..MaxVars}

\* Script texts: up to MaxPieces pieces, each plain text, a brace, a placeholder
\* of a variable that may be in the list (a, b) or is not (c), or a fragment of one.
Pieces ==
    { <<"x">>, <<"{">>, <<"}">>, <<"{", "{", "a">>, <<"}", "}">>,
      Placeholder(<<"a">>), Placeholder(<<"b">>), Placeholder(<<"c">>) }
RECURSIVE Concat(_)
Concat(ps) == IF ps = <<>> THEN <<>> ELSE Head(ps) \o Concat(Tail(ps))
Scripts == {Concat(ps) : ps \in UNION {[1..n -> Pieces] : n \in 0..MaxPieces}}

\* strings.ReplaceAll(s, old, new) for a non-empty old: the non-overlapping
\* occurrences of old, found from the left, are replaced by new.
RECURSIVE ReplaceAll(_, _, _)
ReplaceAll(s, old, new) ==
    IF Len(s) < Len(old) THEN s
    ELSE IF SubSeq(s, 1, Len(old)) = old
         THEN new \o ReplaceAll(SubSeq(s, Len(old) + 1, Len(s)), old, new)
         ELSE <<Head(s)>> \o ReplaceAll(Tail(s), old, new)

\* for _, v := range vars { script = strings.ReplaceAll(script, "{{"+v.Name+"}}", v.Value) }
RECURSIVE ReplaceVariables(_, _)
ReplaceVariables(script, vs) ==
    IF vs = <<>> THEN script
    ELSE ReplaceVariables(ReplaceAll(script, Placeholder(Head(vs).Name), Head(vs).Value),
                          Tail(vs))

\* A call ReplaceVariables(sc, vars), as ExecuteScript makes it.
InitRV ==
    /\ forProvider = [InitScript |-> "", StatusCheckScript |-> "",
                      UpdateScript |-> "", CleanupScript |-> ""]
    /\ deleted = FALSE /\ finalizer = FALSE /\ gone = FALSE
    /\ ready = "none" /\ synced = "none"
    /\ Stdout = "" /\ Stderr = "" /\ StatusCode = 0
    /\ pc = "idle" /\ passes = 0 /\ service = "nil" /\ obs = NoObs /\ hret = NoRet
    /\ config = NoAuth /\ attempts = 0 /\ client = "nil" /\ err = NilErr /\ openConns = 0
    /\ phase = "none" /\ xpc = "none" /\ remoteFile = 0 /\ res = NoRes /\ handles = {}
    /\ files = {}
    /\ dialLog = <<>> /\ sleeps = 0 /\ ran = <<>> /\ remoteOps = NoOps /\ run = NoRun
    /\ lastCheck = NoCheck /\ prev = FALSE /\ cleanupRuns = 0
    /\ rvScript \in Scripts /\ rvVars \in VarLists
    /\ rvOut = <<>> /\ rvDone = FALSE
    /\ IdleOther

CallReplaceVariables ==
    /\ ~rvDone
    /\ rvOut' = ReplaceVariables(rvScript, rvVars)
    /\ rvDone' = TRUE
    /\ UNCHANGED <<rvScript, rvVars, otherVars>>
    /\ UNCHANGED <<resVars, passVars, connVars, execVars, hostVars, histVars>>

NextRV == CallReplaceVariables

SpecRV == InitRV /\ [][NextRV]_vars

\* ----------------------------------------------- NewSSHClient's validation
\* The variables of the reconciler at rest.
IdleMain ==
    /\ forProvider = [InitScript |-> "", StatusCheckScript |-> "",
                      UpdateScript |-> "", CleanupScript |-> ""]
    /\ deleted = FALSE /\ finalizer = FALSE /\ gone = FALSE
    /\ ready = "none" /\ synced = "none"
    /\ Stdout = "" /\ Stderr = "" /\ StatusCode = 0
    /\ pc = "idle" /\ passes = 0 /\ service = "nil" /\ obs = NoObs /\ hret = NoRet
    /\ config = NoAuth /\ attempts = 0 /\ client = "nil" /\ err = NilErr /\ openConns = 0
    /\ phase = "none" /\ xpc = "none" /\ remoteFile = 0 /\ res = NoRes /\ handles = {}
    /\ files = {}
    /\ dialLog = <<>> /\ sleeps = 0 /\ ran = <<>> /\ remoteOps = NoOps /\ run = NoRun
    /\ lastCheck = NoCheck /\ prev = FALSE /\ cleanupRuns = 0
mainVars == <<resVars, passVars, connVars, execVars, hostVars, histVars>>

\* Host strings: digits, letters, dots and a character no host name holds.
HostChars == {"1", "h", ".", "/"}
Hosts == UNION {[1..n -> HostChars] : n \in 0..MaxHostLen} \cup {IPv4Host}
\* Every payload of the Secret, by the cases NewSSHClient distinguishes.
Creds ==
    [parse : BOOLEAN, Username : {"", "u"}, RemoteHostIP : Hosts,
     RemoteHostPort : {"", "22"}, Password : {"", "pw"},
     PrivateKey : {"", "key", "notbase64", "notakey"}, KnownHosts : {"", "kh", "badkh"}]

InitCred ==
    /\ IdleMain /\ IdleSubst /\ IdlePar /\ stable = FALSE
    /\ kcIn \in Creds /\ kcOut = "nil" /\ kcAuth = NoAuth /\ kcDone = FALSE

\* NewSSHClient(ctx, data) up to its retry loop, which it enters when no error
\* was returned.
CallNewSSHClient ==
    /\ ~kcDone
    /\ kcOut' = ValidateConfig(kcIn)
    /\ kcAuth' = IF ValidateConfig(kcIn) = "nil" THEN AuthOf(kcIn) ELSE NoAuth
    /\ kcDone' = TRUE
    /\ UNCHANGED <<kcIn, mainVars, substVars, parVars, stable>>

NextCred == CallNewSSHClient

SpecCred == InitCred /\ [][NextCred]_vars

\* ------------------------------------------------- requeueing, fair worker
\* A resource with a status check, reconciled by a worker that takes its next
\* step whenever it has one: the reconciler requeues the request after an error
\* (Observe, Create, Update, Delete) and after the poll interval otherwise.
InitLive == Init /\ forProvider.StatusCheckScript /= ""

\* From here on the credentials are valid, the host is reachable and every run of
\* the status check exits 0.
BecomeStable ==
    /\ ~stable /\ pc = "idle" /\ passes < MaxPasses /\ ~deleted /\ ~gone
    /\ stable' = TRUE
    /\ UNCHANGED <<mainVars, substVars, credVars, parVars>>

\* What a step may do once the environment is stable.
StableConnect == stable => pc' \in {"dial", "observe"} /\ config'.signer /= "nil"
StableDial == stable => err'.nil
StableSendFile == (stable /\ phase = "statusCheck") => xpc' = "run"
StableRunScript == (stable /\ phase = "statusCheck") => xpc' = "clean"

Worker ==
    \/ Connect /\ StableConnect
    \/ Dial /\ StableDial
    \/ DialPanic
    \/ Sleep
    \/ ConnectReturn
    \/ Recover
    \/ Observe
    \/ SendFile /\ StableSendFile
    \/ RunScript /\ StableRunScript
    \/ cleanUpTempFile
    \/ ObserveResult
    \/ Dispatch
    \/ Create
    \/ CreateResult
    \/ Update
    \/ UpdateResult
    \/ Delete
    \/ DeleteResult

NextLive ==
    \/ RequestDelete /\ ~stable
    \/ BecomeStable
    \/ Worker

SpecLive == InitLive /\ [][NextLive]_vars /\ WF_vars(Worker)

\* ------------------------------------- concurrent ExecuteScript calls, one host
\* Two resources reconciled at the same time against the same host; each of their
\* ExecuteScript calls stages, runs and removes its own file, the steps of the two
\* interleaved.  A file holds the script of the call that staged it: <<resource,
\* call>>.
ParProcs == {"r1", "r2"}
ParNames == 1..(Cardinality(ParProcs) * MaxCalls)
NoTag == <<>>
ParIdle ==
    [xpc |-> "idle", name |-> 0, calls |-> 0, ranTag |-> NoTag, removedTag |-> NoTag,
     overwrote |-> NoTag]

\* Mutant: randomFileName may return a name it has returned before.
RepeatedFileName(used) == ParNames
\* randomFileName(8): 8 random bytes, taken to differ from every name drawn before.
randomFileName(used) == ParNames \ used

InitPar ==
    /\ IdleMain /\ IdleSubst /\ IdleCred /\ stable = FALSE
    /\ ex = [p \in ParProcs |-> ParIdle]
    /\ hostFiles = [n \in ParNames |-> NoTag]
    /\ usedNames = {}

\* remoteFile := "/tmp/" + randomFileName(8)
ParStart(p) ==
    /\ ex[p].xpc = "idle" /\ ex[p].calls < MaxCalls
    /\ \E n \in randomFileName(usedNames) :
         /\ ex' = [ex EXCEPT ![p] = [ParIdle EXCEPT !.xpc = "send", !.name = n,
                                                    !.calls = ex[p].calls + 1]]
         /\ usedNames' = usedNames \cup {n}
    /\ UNCHANGED <<hostFiles, mainVars, substVars, credVars, stable>>

\* sendFile: fails before sftpClient.Create, or creates (truncates) the file and
\* writes the script, or fails while writing.
ParSend(p) ==
    /\ ex[p].xpc = "send"
    /\ \/ /\ ex' = [ex EXCEPT ![p].xpc = "idle"]
          /\ UNCHANGED hostFiles
       \/ /\ hostFiles' = [hostFiles EXCEPT ![ex[p].name] = <<p, ex[p].calls>>]
          /\ \E next \in {"run", "idle"} :
               ex' = [ex EXCEPT ![p].xpc = next, ![p].overwrote = hostFiles[ex[p].name]]
    /\ UNCHANGED <<usedNames, mainVars, substVars, credVars, stable>>

\* session.Run("chmod +x f && f"): runs what the file holds now; exit 0 goes on
\* to the removal, anything else returns.
ParRun(p) ==
    /\ ex[p].xpc = "run"
    /\ \E next \in {"clean", "idle"} :
         ex' = [ex EXCEPT ![p].xpc = next, ![p].ranTag = hostFiles[ex[p].name]]
    /\ UNCHANGED <<hostFiles, usedNames, mainVars, substVars, credVars, stable>>

\* cleanUpTempFile: rm -f f, which may fail.
ParClean(p) ==
    /\ ex[p].xpc = "clean"
    /\ \/ /\ hostFiles' = [hostFiles EXCEPT ![ex[p].name] = NoTag]
          /\ ex' = [ex EXCEPT ![p].xpc = "idle", ![p].removedTag = hostFiles[ex[p].name]]
       \/ /\ ex' = [ex EXCEPT ![p].xpc = "idle"]
          /\ UNCHANGED hostFiles
    /\ UNCHANGED <<usedNames, mainVars, substVars, credVars, stable>>

NextPar ==
    \/ \E p \in ParProcs : ParStart(p)
    \/ \E p \in ParProcs : ParSend(p)
    \/ \E p \in ParProcs : ParRun(p)
    \/ \E p \in ParProcs : ParClean(p)

SpecPar == InitPar /\ [][NextPar]_vars

\* ------------------------------------------------------------------ claims
ExitedWith(c) == CheckedThisPass /\ lastCheck.kind = "exit" /\ lastCheck.code = c
NoExitStatus == CheckedThisPass /\ lastCheck.kind \in {"notrun", "dropped"}
TotalOps ==
    remoteOps["statusCheck"] + remoteOps["init"] + remoteOps["update"] + remoteOps["cleanup"]
\* The current pass, or the one that just ended, handles the deletion.
DeletionPass == deleted /\ (pc /= "idle" \/ hret.fn = "Delete" \/ gone)

C3_InitThenReady ==
    /\ (ExitedWith(100) /\ ~gone /\ pc /= "observed") =>
           \/ pc = "create"
           \/ pc = "exec" /\ phase = "init"
           \/ /\ pc = "idle" /\ hret.fn = "Create"
              /\ ran = IF forProvider.InitScript /= "" THEN <<"statusCheck", "init">>
                       ELSE <<"statusCheck">>
    /\ (prev /\ pc = "observed" /\ ExitedWith(0)) =>
           /\ obs = Exists /\ ready = "Available"
           /\ Stdout = lastCheck.out /\ Stderr = lastCheck.err
C3_Witness ==
    /\ prev /\ pc = "observed" /\ ExitedWith(0)
    /\ lastCheck.out = "o2" /\ Stdout = "o2" /\ Stderr = "e2" /\ ready = "Available"

\* C4: a status check that ends without an exit status (upload failed, no session,
\* connection dropped) is never recorded as exit status 1.
C4_NoExitNotOne == NoExitStatus => StatusCode /= 1

\* C5: when ExecuteScript returns after the remote process terminated, with
\* whatever exit status, and no removal failed, the staged file is gone.
C5_StagedFileRemoved ==
    (pc = "exec" /\ xpc = "ret" /\ run.kind = "exit" /\ run.rm \notin {"sessionFail", "rmFail"})
        => remoteFile \notin files

\* C6: when ExecuteScript returns, on every path, none of the handles it opened
\* (command session, file-transfer client, remote file) is still open.
C6_HandlesReleased == (pc = "exec" /\ xpc = "ret") => handles = {}

\* C7: NewSSHClient makes no handshake attempt after a successful one and returns
\* that connection with no error; in particular after fail, fail, success.
C7_FirstSuccess ==
    /\ \A i \in 1..Len(dialLog) : dialLog[i] => i = Len(dialLog)
    /\ (dialLog /= <<>> /\ dialLog[Len(dialLog)]) =>
           /\ pc = "dialed"
           /\ NewSSHClientReturn(client, err) = [client |-> "client", err |-> NilErr]
    /\ (pc = "observe" /\ ready /= "Deleting") => service = "client" /\ ~hret.err
C7_Witness ==
    /\ pc = "dialed" /\ dialLog = <<FALSE, FALSE, TRUE>>
    /\ NewSSHClientReturn(client, err) = [client |-> "client", err |-> NilErr]

\* C8: NewSSHClient makes at most 3 handshake attempts, with a delay between
\* consecutive attempts only; when all fail there were exactly 3 attempts and 2
\* delays, and it returns the error of the third attempt and no connection.
C8_BoundedRetry ==
    /\ Len(dialLog) <= 3
    /\ pc = "dial" => sleeps = Len(dialLog) /\ Len(dialLog) < 3
    /\ pc \in {"sleep", "dialed"} => sleeps = Len(dialLog) - 1
    /\ (pc = "dialed" /\ ~err.nil) =>
           /\ dialLog = <<FALSE, FALSE, FALSE>> /\ sleeps = 2
           /\ NewSSHClientReturn(client, err) =
                  [client |-> "nil", err |-> [nil |-> FALSE, attempt |-> 3]]
    /\ (pc = "idle" /\ hret = [fn |-> "Connect", err |-> TRUE] /\ dialLog /= <<>>) =>
           Len(dialLog) = 3 /\ sleeps = 2 /\ service = "nil"
C8_Witness ==
    /\ pc = "idle" /\ hret = [fn |-> "Connect", err |-> TRUE]
    /\ dialLog = <<FALSE, FALSE, FALSE>> /\ sleeps = 2 /\ service = "nil"

\* C9: a deletion of a resource with a cleanup script runs the cleanup script
\* exactly once: never twice, and once by the time the deletion has completed.
C9_CleanupExactlyOnce ==
    forProvider.CleanupScript /= "" =>
        /\ cleanupRuns <= 1
        /\ (gone /\ deleted) => cleanupRuns = 1

\* C10 as stated: the passes that delete a resource with an empty cleanup body
\* issue no remote command and end without error.
C10_NoRemoteCommand ==
    (DeletionPass /\ forProvider.CleanupScript = "") =>
        TotalOps = 0 /\ ~obs.err /\ ~hret.err

\* C10, amended: for a deleted resource with an empty cleanup body, Delete returns
\* no error and issues no remote command, and once the resource carries Deleting
\* the pass that completes the deletion opens no connection and issues no remote
\* command; the only remote commands of its deletion passes are the status
\* check's, run by Observe before Deleting is set.
C10_DeleteNoCommand ==
    (deleted /\ forProvider.CleanupScript = "") =>
        /\ remoteOps["cleanup"] = 0 /\ cleanupRuns = 0 /\ "cleanup" \notin Range(ran)
        /\ DeletionPass => remoteOps["init"] = 0 /\ remoteOps["update"] = 0
        /\ (pc = "idle" /\ hret.fn = "Delete") => ~hret.err /\ ready = "Deleting"
        /\ (pc /= "idle" /\ ready = "Deleting") =>
               TotalOps = 0 /\ dialLog = <<>> /\ service = "nil"
        /\ (gone /\ ready = "Deleting") => TotalOps = 0 /\ ~obs.err
C10_Witness ==
    /\ deleted /\ gone /\ ready = "Deleting" /\ hret.fn = "Connect"
    /\ forProvider.CleanupScript = "" /\ forProvider.StatusCheckScript /= ""

UniqueNames(vs) == \A i, j \in 1..Len(vs) : vs[i].Name = vs[j].Name => i = j
Occurs(p, s) == \E k \in 0..(Len(s) - Len(p)) : SubSeq(s, k + 1, k + Len(p)) = p
\* The value to put at the head of s: of the variable whose placeholder starts s.
Matching(s, vs) ==
    {i \in 1..Len(vs) : /\ Len(s) >= Len(Placeholder(vs[i].Name))
                        /\ SubSeq(s, 1, Len(Placeholder(vs[i].Name))) = Placeholder(vs[i].Name)}
\* One pass over s from the left: a placeholder of a variable of vs is replaced by
\* its value, which is not scanned; every other character is kept.
RECURSIVE Substitute(_, _)
Substitute(s, vs) ==
    IF s = <<>> THEN <<>>
    ELSE IF Matching(s, vs) /= {}
         THEN LET i == CHOOSE i \in Matching(s, vs) : TRUE
              IN  vs[i].Value
                  \o Substitute(SubSeq(s, Len(Placeholder(vs[i].Name)) + 1, Len(s)), vs)
         ELSE <<Head(s)>> \o Substitute(Tail(s), vs)

\* C11: for a variable set (unique names) and any script, ReplaceVariables returns
\* the script with every {{name}} of a variable replaced by that variable's value
\* and everything else, placeholders of other names included, unchanged; a script
\* without placeholders is returned as it is.
C11_Substitutes ==
    (rvDone /\ UniqueNames(rvVars)) => rvOut = Substitute(rvScript, rvVars)

\* C12: a value that contains a placeholder of another variable of the set
\* appears verbatim in the result wherever its own placeholder stood in the script.
C12_NoRescan ==
    (rvDone /\ UniqueNames(rvVars)) =>
        \A i \in 1..Len(rvVars) :
            ( /\ Occurs(Placeholder(rvVars[i].Name), rvScript)
              /\ \E j \in 1..Len(rvVars) :
                     j /= i /\ Occurs(Placeholder(rvVars[j].Name), rvVars[i].Value) )
            => Occurs(rvVars[i].Value, rvOut)

\* C13: with unique names, every permutation of the variable list gives the same
\* result.
C13_OrderIrrelevant ==
    (rvDone /\ UniqueNames(rvVars)) =>
        \A q \in [1..Len(rvVars) -> 1..Len(rvVars)] :
            (\A i, j \in 1..Len(rvVars) : q[i] = q[j] => i = j)
            => ReplaceVariables(rvScript, [i \in 1..Len(rvVars) |-> rvVars[q[i]]]) = rvOut

\* C14: when ExecuteScript returns after a process that terminated with a nonzero
\* exit status, its result carries that exit status and the stdout and the stderr
\* the script wrote; and after such a status check the status fields Stdout and
\* Stderr are that output.
C14_ResultCarriesOutput ==
    /\ (pc = "exec" /\ xpc = "ret" /\ run.kind = "exit" /\ run.code /= 0) =>
           res.code = run.code /\ res.stdout = run.out /\ res.stderr = run.err
    /\ (pc = "observed" /\ CheckedThisPass /\ lastCheck.kind = "exit" /\ lastCheck.code /= 0) =>
           Stdout = lastCheck.out /\ Stderr = lastCheck.err

\* C15: when the most recent status-check run terminated, the recorded StatusCode
\* is its exit status; in particular 0 after a check that exits 0.
C15_LastExitStatus == lastCheck.kind = "exit" => StatusCode = lastCheck.code

\* C16: with an empty status-check body, an observation of a resource that is not
\* being deleted returns exists and up to date, leaves the resource Available and
\* has issued no remote command.
C16_EmptyCheckReady ==
    (pc = "observed" /\ forProvider.StatusCheckScript = "" /\ ~deleted) =>
        obs = Exists /\ ready = "Available" /\ TotalOps = 0

RunSucceeded == run.kind = "exit" /\ run.code = 0

\* C17: a Create whose init script exits nonzero or cannot be executed returns an
\* error and leaves the resource in ReconcileError; a Create with an empty init
\* body returns no error and issues no remote command.
C17_InitFailureFatal ==
    /\ [](/\ (pc = "idle" /\ hret = [fn |-> "Create", err |-> TRUE]) =>
                 synced = "ReconcileError" /\ forProvider.InitScript /= ""
          /\ (pc = "idle" /\ hret.fn = "Create" /\ forProvider.InitScript = "") =>
                 ~hret.err /\ remoteOps["init"] = 0 /\ "init" \notin Range(ran))
    /\ [][(pc = "exec" /\ xpc = "ret" /\ phase = "init") =>
              /\ hret' = [fn |-> "Create", err |-> ~RunSucceeded]
              /\ ~RunSucceeded => synced' = "ReconcileError"]_vars
C17_Witness ==
    /\ pc = "idle" /\ hret = [fn |-> "Create", err |-> TRUE] /\ synced = "ReconcileError"
    /\ ExitedWith(100) /\ ran = <<"statusCheck", "init">>

C19_UploadFailureAborts ==
    (pc = "exec" /\ run.sent \notin {"none", "ok"}) =>
        /\ xpc = "ret" /\ res.err = "other" /\ res.stdout = "" /\ res.stderr = ""
        /\ run.kind = "notrun" /\ run.rm = "none"
        /\ remoteOps[phase] = 1 /\ "runSession" \notin handles
C19_Witness ==
    /\ pc = "exec" /\ xpc = "ret" /\ run.sent = "writeFail" /\ res.err = "other"
    /\ remoteOps[phase] = 1 /\ remoteFile \in files

\* C20: when the script exited 0, ExecuteScript returns no error and the stdout
\* and stderr the script wrote, whether or not the removal of the staged file
\* failed.
C20_CleanupFailureIgnored ==
    (pc = "exec" /\ xpc = "ret" /\ RunSucceeded) =>
        res = [stdout |-> run.out, stderr |-> run.err, err |-> "nil", code |-> 0]
C20_Witness ==
    /\ pc = "exec" /\ xpc = "ret" /\ RunSucceeded /\ run.rm = "rmFail"
    /\ remoteFile \in files /\ res.err = "nil" /\ res.stdout = "o1" /\ res.stderr = "e1"

\* Two or more non-empty labels separated by dots.
MultiLabel(h) ==
    /\ Len(h) >= 3 /\ h[1] /= "." /\ h[Len(h)] /= "."
    /\ \E i \in 1..Len(h) : h[i] = "."
    /\ \A i \in 1..(Len(h) - 1) : ~(h[i] = "." /\ h[i + 1] = ".")
\* A multi-label name of letters, digits and hyphens (a dotted quad is one).
Hostname(h) ==
    MultiLabel(h) /\ \A i \in 1..Len(h) : h[i] \in Digit \cup {"h", "c", "-", "."}
BadKey(kc) == kc.PrivateKey \in {"notbase64", "notakey"}
Malformed(kc) ==
    \/ ~kc.parse \/ kc.Username = "" \/ ~MultiLabel(kc.RemoteHostIP)
    \/ (kc.Password = "" /\ kc.PrivateKey = "")
    \/ BadKey(kc)

\* C21: credentials that are malformed (payload that does not parse, empty
\* username, empty or badly formatted host, no authentication method, private
\* key that cannot be decoded or parsed) make NewSSHClient return an error before
\* its retry loop: no handshake is attempted.
C21_MalformedRejected == (kcDone /\ Malformed(kcIn)) => kcOut /= "nil"

\* C22 as stated: NewSSHClient reaches the handshake only with exactly one of
\* password and private key, and non-empty username and host; neither and both are
\* rejected.
C22_ExactlyOneMethod ==
    kcDone =>
        /\ kcOut = "nil" =>
               /\ (kcIn.Password /= "") /= (kcIn.PrivateKey /= "")
               /\ kcIn.Username /= "" /\ kcIn.RemoteHostIP /= <<>>
        /\ ((kcIn.Password /= "") = (kcIn.PrivateKey /= "")) => kcOut /= "nil"

\* C22, amended: NewSSHClient reaches the handshake only with at least one of
\* password and private key, and non-empty username and host; credentials with
\* neither are rejected; with both, the private key is the method used.
C22_AtLeastOneMethod ==
    kcDone =>
        /\ kcOut = "nil" =>
               /\ kcIn.Password /= "" \/ kcIn.PrivateKey /= ""
               /\ kcIn.Username /= "" /\ kcIn.RemoteHostIP /= <<>> /\ kcIn.parse
               /\ kcAuth.method = IF kcIn.PrivateKey /= "" THEN "PublicKeys" ELSE "Password"
        /\ (kcIn.Password = "" /\ kcIn.PrivateKey = "") => kcOut /= "nil"
C22_Witness ==
    /\ kcDone /\ kcOut = "nil" /\ kcIn.Password = "pw" /\ kcIn.PrivateKey = "key"
    /\ kcAuth.method = "PublicKeys"

\* C29 as stated: a host is accepted exactly when it is a dotted quad or a
\* multi-label host name; a single label, an empty label or a character that no
\* host name holds is rejected.
C29_HostValidation ==
    (kcDone /\ kcIn.parse /\ kcIn.Username /= "" /\ kcIn.RemoteHostIP /= <<>>) =>
        ((kcOut = "Remote host address is not a valid")
            <=> ~(ipv4Regex(kcIn.RemoteHostIP) \/ Hostname(kcIn.RemoteHostIP)))

\* C29, amended: a host is accepted exactly when it is two or more non-empty
\* labels separated by dots, whatever characters the labels hold (every dotted
\* quad and multi-label host name is); the empty string, a single label and a
\* string with an empty label are rejected.
C29_AnyLabels ==
    (kcDone /\ kcIn.parse /\ kcIn.Username /= "") =>
        /\ (kcOut = "Remote host key not found in the data") <=> kcIn.RemoteHostIP = <<>>
        /\ kcIn.RemoteHostIP /= <<>> =>
               ((kcOut = "Remote host address is not a valid")
                   <=> ~MultiLabel(kcIn.RemoteHostIP))
        /\ ipv4Regex(kcIn.RemoteHostIP) => MultiLabel(kcIn.RemoteHostIP)
C29_Witness ==
    /\ kcDone /\ kcIn.RemoteHostIP = <<"/", ".", "h">> /\ kcOut = "nil"

\* C23: a pass opens one connection and closes it when it ends: with the worker
\* idle no connection is open, and never more than one is.
C23_ConnectionDiscarded == openConns <= 1 /\ (pc = "idle" => openConns = 0)

C25_InitFirstTime ==
    forProvider.InitScript /= "" =>
        /\ (passes = 1 /\ pc = "idle" /\ synced = "ReconcileSuccess") => "init" \in Range(ran)
        /\ (pc = "idle" /\ ExitedWith(100) /\ hret.fn = "Create") => "init" \in Range(ran)

\* C26: the Stdout and Stderr status fields always hold what the last execution
\* of the status check wrote, whatever has run since.
C26_OutputOfLastCheck ==
    lastCheck.kind = "exit" => Stdout = lastCheck.out /\ Stderr = lastCheck.err

\* C30: whenever the Ready condition is Available, the most recent status-check
\* run exited 0.
C30_AvailableMeansExitZero ==
    ready = "Available" => lastCheck.kind = "exit" /\ lastCheck.code = 0

\* C27: a status check that exited 1 or another nonzero status is run again on a
\* later pass: once the host is reachable and every status-check run exits 0,
\* the resource eventually is Available, whatever the earlier runs returned.
C27_EventuallyReady == stable ~> (ready = "Available" /\ ExitedWith(0))
C27_Witness ==
    /\ stable /\ pc = "observed" /\ ExitedWith(0) /\ ready = "Available"
    /\ StatusCode = 1 /\ synced = "ReconcileError"

\* C28: with distinct generated names, under every interleaving of the stage, run
\* and remove steps of concurrent executions, an execution runs only the script it
\* staged, overwrites no file that was there, and removes only its own file; and
\* the file of a call in progress holds that call's script.
C28_NoInterference ==
    \A p \in ParProcs :
        /\ ex[p].ranTag \in {NoTag, <<p, ex[p].calls>>}
        /\ ex[p].xpc = "clean" => ex[p].ranTag = <<p, ex[p].calls>>
        /\ ex[p].overwrote = NoTag
        /\ ex[p].removedTag \in {NoTag, <<p, ex[p].calls>>}
        /\ ex[p].xpc \in {"run", "clean"} => hostFiles[ex[p].name] = <<p, ex[p].calls>>
        /\ \A q \in ParProcs : (q /= p /\ ex[p].name /= 0) => ex[q].name /= ex[p].name
C28_Witness ==
    /\ ex["r1"].xpc = "clean" /\ ex["r2"].xpc = "clean"
    /\ ex["r1"].calls = 2 /\ ex["r2"].calls = 2
    /\ ex["r1"].ranTag = <<"r1", 2>> /\ ex["r2"].ranTag = <<"r2", 2>>
    /\ \E n \in ParNames : hostFiles[n] = <<"r1", 1>>

\* C31: once the resource carries the Deleting condition, Connect opens no
\* connection and returns a client without one, Observe reports the resource as
\* non-existent without running the status check or any other remote command, and
\* no step changes the Stdout, Stderr and StatusCode of the observation.
C31_DeletingSkips ==
    /\ [](ready = "Deleting" =>
            /\ pc \in {"idle", "observe", "observed"}
            /\ pc /= "idle" =>
                   /\ service = "nil" /\ hret = [fn |-> "Connect", err |-> FALSE]
                   /\ dialLog = <<>> /\ ran = <<>> /\ TotalOps = 0
            /\ pc = "observed" => obs = NotExists)
    /\ [][ready = "Deleting" =>
            UNCHANGED <<Stdout, Stderr, StatusCode, openConns, files>>]_vars
C31_Witness ==
    /\ ready = "Deleting" /\ pc = "observed" /\ obs = NotExists /\ service = "nil"
    /\ forProvider.StatusCheckScript /= "" /\ StatusCode = 2 /\ Stderr /= ""

\* The client Connect returned for a resource marked Deleting is in use.
ConnectionLess == service = "nil" /\ hret = [fn |-> "Connect", err |-> FALSE] /\ pc /= "idle"

\* C32: no script execution is attempted through the connection-less client:
\* every handler that calls ExecuteScript, and ExecuteScript itself, has a client
\* with a connection, and no pass is aborted by the type assertion on a missing
\* connection (the only aborted passes are those of the handshake, in the dial).
C32_NoMissingConnection ==
    /\ pc \in {"exec", "create", "update", "delete"} => service = "client"
    /\ (pc = "observe" /\ forProvider.StatusCheckScript /= "" /\ ~cdIsDeleting)
           => service = "client"
    /\ ConnectionLess => pc \in {"observe", "observed"} /\ ran = <<>> /\ deleted
    /\ pc = "panic" => ~ConnectionLess
C32_Witness ==
    /\ ConnectionLess /\ pc = "observed" /\ obs = NotExists
    /\ forProvider.StatusCheckScript /= "" /\ forProvider.CleanupScript /= ""
    /\ forProvider.InitScript /= ""

====
